---- MODULE Spec2Model ----
(***************************************************************************)
(* Model of SelfBalancingBinaryTree (src/SelfBalancingBinaryTree.cpp).     *)
(*                                                                         *)
(* The heap is a function from the addresses of the live Node objects to   *)
(* their four fields; nullptr is NULL. The private recursive methods are   *)
(* recursive operators over a machine record m = [heap, ret, fault, rot,   *)
(* copies, freed, unrepaired, overshoot]: the heap they work on, the       *)
(* pointer they return, whether a null or released pointer was             *)
(* dereferenced, how many rotations were made, how many successor keys     *)
(* were copied, the addresses released, and two counters of what the       *)
(* balance checks saw.                                                     *)
(* The public methods are the actions; main() is a scripted caller.        *)
(***************************************************************************)
EXTENDS Integers, Sequences, FiniteSets, TLC

\* Keys offered to insert/remove/search are 1..MaxKey.
MaxKey == 4

Keys == 1..MaxKey

\* Keys offered when both trees are driven side by side are 1..MaxPairKey.
MaxPairKey == 3

\* nullptr.
NULL == 0

\* The calls main() makes, in order (lines 358-399).
Ins(k) == [call |-> "insert", key |-> k]

Rem(k) == [call |-> "remove", key |-> k]

MainScript ==
    << Ins(30), Ins(20), Ins(40), Ins(10), Ins(25), Ins(35), Ins(50), Ins(5),
       Ins(55), Ins(60), Rem(20), Rem(30) >>

\* Addresses operator new can hand out: more than any tree here can need.
Addr == 1..(MaxKey + Len(MainScript))

VARIABLES
    root,       \* SelfBalancingBinaryTree::root
    heap,       \* the Node objects allocated and not released
    alive,      \* FALSE once the destructor has run
    fault,      \* TRUE once a null or released pointer was dereferenced
    op,         \* the last public call: "new", "insert", "remove", "search", "destroy"
    arg,        \* its argument
    result,     \* what the last search returned
    present,    \* whether arg was stored in the tree when the call began
    rotations,  \* rotate_left/rotate_right calls made by the last call
    copies,     \* successor keys copied (line 196) by the last call
    freed,      \* the addresses the last call released, in order
    unrepaired, \* insert: balance checks beyond 1 that matched no single case
    overshoot,  \* balance checks that read beyond 2 or above an unbalanced node
    pc,         \* 0: any caller; k >= 1: main() is about to make its k-th call
    tree,       \* which tree the caller has: "avl", "plain" or "both"
    broot,      \* BinarySearchTree::root
    bheap,      \* the plain tree's Node objects allocated and not released
    bfault,     \* fault, for the plain tree
    bcopies,    \* copies, for the plain tree (line 86)
    bfreed,     \* freed, for the plain tree
    S,          \* reference model: the mathematical set the calls describe
    peak        \* the largest size S has had

bvars == <<broot, bheap, bfault, bcopies, bfreed>>

avars == <<root, heap, fault, rotations, copies, freed, unrepaired, overshoot>>

vars == <<avars, bvars, alive, op, arg, result, present, pc, tree, S, peak>>

Max(a, b) == IF a >= b THEN a ELSE b

Abs(x) == IF x < 0 THEN -x ELSE x

MinOf(s) == CHOOSE x \in s : \A y \in s : x <= y

-----------------------------------------------------------------------------
(* Node and the allocator *)

\* Node(int data): null children, height 1.
Node(data) == [data |-> data, left |-> NULL, right |-> NULL, height |-> 1]

\* The machine a public call starts its recursion with.
NewMachine(h) ==
    [heap |-> h, ret |-> NULL, fault |-> FALSE, rot |-> 0, copies |-> 0,
     freed |-> << >>, unrepaired |-> 0, overshoot |-> 0]

Machine == NewMachine(heap)

Fault(m) == [m EXCEPT !.fault = TRUE]

\* new Node(data): the lowest free address.
new_Node(m, data) ==
    LET free == Addr \ DOMAIN m.heap IN
    IF free = {} THEN Fault(m)
    ELSE LET a == MinOf(free) IN
         [m EXCEPT !.heap = [x \in DOMAIN m.heap \cup {a} |->
                                IF x = a THEN Node(data) ELSE m.heap[x]],
                   !.ret = a]

\* delete p, p not null: the object leaves the heap.
delete(m, p) ==
    IF p \notin DOMAIN m.heap THEN Fault(m)
    ELSE [m EXCEPT !.heap = [x \in DOMAIN m.heap \ {p} |-> m.heap[x]],
                   !.freed = Append(@, p)]

-----------------------------------------------------------------------------
(* The tree as the links make it *)

\* The nodes linked below node, node included.
RECURSIVE Nodes(_, _)
Nodes(h, node) ==
    IF node = NULL THEN {}
    ELSE {node} \cup Nodes(h, h[node].left) \cup Nodes(h, h[node].right)

\* The keys held by the nodes linked below node.
StoredKeys(h, node) == {h[n].data : n \in Nodes(h, node)}

\* The height of the subtree at node, counted on the links (absent: 0).
RECURSIVE TrueHeight(_, _)
TrueHeight(h, node) ==
    IF node = NULL THEN 0
    ELSE 1 + Max(TrueHeight(h, h[node].left), TrueHeight(h, h[node].right))

-----------------------------------------------------------------------------
(* Height bookkeeping *)

height(m, node) == IF node = NULL THEN 0 ELSE m.heap[node].height

\* Mutant of balance_factor: the subtraction is the other way round.
balance_factor_reversed(m, node) ==
    IF node = NULL THEN 0
    ELSE height(m, m.heap[node].right) - height(m, m.heap[node].left)

balance_factor(m, node) ==
    IF node = NULL THEN 0
    ELSE height(m, m.heap[node].left) - height(m, m.heap[node].right)

update_height(m, node) ==
    [m EXCEPT !.heap[node].height =
        1 + Max(height(m, m.heap[node].left), height(m, m.heap[node].right))]

\* Lines 127 and 211, int balance = balance_factor(node): what the check
\* reads. overshoot counts the reads beyond 2 and the reads made while a node
\* below node is out of balance.
observe_balance(m, node) ==
    LET below == Nodes(m.heap, node) \ {node} IN
    IF \/ Abs(balance_factor(m, node)) > 2
       \/ \E n \in below :
            Abs(TrueHeight(m.heap, m.heap[n].left)
                - TrueHeight(m.heap, m.heap[n].right)) > 1
    THEN [m EXCEPT !.overshoot = @ + 1]
    ELSE m

-----------------------------------------------------------------------------
(* Rotations *)

\* Mutant of rotate_right: the promoted node's height is recomputed before
\* node's, from node's stale height.
rotate_right_promotedFirst(m, node) ==
    LET new_root == m.heap[node].left IN
    IF node = NULL \/ new_root = NULL THEN Fault(m)
    ELSE LET new_root_right == m.heap[new_root].right
             m1 == [m EXCEPT !.heap[new_root].right = node]
             m2 == [m1 EXCEPT !.heap[node].left = new_root_right]
             m3 == update_height(m2, new_root)
             m4 == update_height(m3, node)
         IN  [m4 EXCEPT !.ret = new_root, !.rot = @ + 1]

rotate_right(m, node) ==
    LET new_root == m.heap[node].left IN
    IF node = NULL \/ new_root = NULL THEN Fault(m)
    ELSE LET new_root_right == m.heap[new_root].right
             m1 == [m EXCEPT !.heap[new_root].right = node]
             m2 == [m1 EXCEPT !.heap[node].left = new_root_right]
             m3 == update_height(m2, node)
             m4 == update_height(m3, new_root)
         IN  [m4 EXCEPT !.ret = new_root, !.rot = @ + 1]

\* Mutant of rotate_left: the promoted node's height is recomputed before
\* node's, from node's stale height.
rotate_left_promotedFirst(m, node) ==
    LET new_root == m.heap[node].right IN
    IF node = NULL \/ new_root = NULL THEN Fault(m)
    ELSE LET new_root_left == m.heap[new_root].left
             m1 == [m EXCEPT !.heap[new_root].left = node]
             m2 == [m1 EXCEPT !.heap[node].right = new_root_left]
             m3 == update_height(m2, new_root)
             m4 == update_height(m3, node)
         IN  [m4 EXCEPT !.ret = new_root, !.rot = @ + 1]

rotate_left(m, node) ==
    LET new_root == m.heap[node].right IN
    IF node = NULL \/ new_root = NULL THEN Fault(m)
    ELSE LET new_root_left == m.heap[new_root].left
             m1 == [m EXCEPT !.heap[new_root].left = node]
             m2 == [m1 EXCEPT !.heap[node].right = new_root_left]
             m3 == update_height(m2, node)
             m4 == update_height(m3, new_root)
         IN  [m4 EXCEPT !.ret = new_root, !.rot = @ + 1]

-----------------------------------------------------------------------------
(* insert(Node*, int) *)

\* Mutant of insert_rebalance: the Left-Right and Right-Left cases are given
\* the single rotation of the Left-Left and Right-Right cases.
insert_rebalance_single(m, node, data) ==
    LET m1 == update_height(m, node)
        balance == balance_factor(m1, node)
    IN  IF balance > 1 THEN rotate_right(m1, node)
        ELSE IF balance < -1 THEN rotate_left(m1, node)
        ELSE [m1 EXCEPT !.ret = node]

\* Mutant of insert_rebalance: a node is repaired only when its balance factor
\* is beyond 2.
insert_rebalance_lax(m, node, data) ==
    LET m1 == update_height(m, node)
        balance == balance_factor(m1, node)
        l == m1.heap[node].left
        r == m1.heap[node].right
    IN  IF balance > 2 /\ data < m1.heap[l].data THEN
            rotate_right(m1, node)
        ELSE IF balance < -2 /\ data > m1.heap[r].data THEN
            rotate_left(m1, node)
        ELSE IF balance > 2 /\ data > m1.heap[l].data THEN
            LET a == rotate_left(m1, l) IN
            rotate_right([a EXCEPT !.heap[node].left = a.ret], node)
        ELSE IF balance < -2 /\ data < m1.heap[r].data THEN
            LET a == rotate_right(m1, r) IN
            rotate_left([a EXCEPT !.heap[node].right = a.ret], node)
        ELSE [m1 EXCEPT !.ret = node]

\* Mutant of insert_rebalance: a node is repaired as soon as its balance factor
\* leaves 0.
insert_rebalance_eager(m, node, data) ==
    LET m1 == update_height(m, node)
        balance == balance_factor(m1, node)
        l == m1.heap[node].left
        r == m1.heap[node].right
    IN  IF balance > 0 /\ data < m1.heap[l].data THEN
            rotate_right(m1, node)
        ELSE IF balance < 0 /\ data > m1.heap[r].data THEN
            rotate_left(m1, node)
        ELSE IF balance > 0 /\ data > m1.heap[l].data THEN
            LET a == rotate_left(m1, l) IN
            IF a.fault THEN a
            ELSE rotate_right([a EXCEPT !.heap[node].left = a.ret], node)
        ELSE IF balance < 0 /\ data < m1.heap[r].data THEN
            LET a == rotate_right(m1, r) IN
            IF a.fault THEN a
            ELSE rotate_left([a EXCEPT !.heap[node].right = a.ret], node)
        ELSE [m1 EXCEPT !.ret = node]

\* Mutant of insert_rebalance: the balance factor is read and nothing is done
\* about it.
insert_rebalance_noRepair(m, node, data) ==
    [observe_balance(update_height(m, node), node) EXCEPT !.ret = node]

\* Lines 122-155: the ancestor's height is refreshed, its balance factor read
\* and one of the four cases applied. The guards are evaluated in the order of
\* the source, so node->left (node->right) is read only when balance > 1
\* (balance < -1).
\* unrepaired counts the checks that read beyond 1 and found the number of
\* true case guards to be other than one.
insert_rebalance(m, node, data) ==
    LET m0 == observe_balance(update_height(m, node), node)
        balance == balance_factor(m0, node)
        l == m0.heap[node].left
        r == m0.heap[node].right
        LeftLeft == balance > 1 /\ data < m0.heap[l].data
        RightRight == balance < -1 /\ data > m0.heap[r].data
        LeftRight == balance > 1 /\ data > m0.heap[l].data
        RightLeft == balance < -1 /\ data < m0.heap[r].data
        cases == Cardinality({c \in {"LL", "RR", "LR", "RL"} :
                    \/ c = "LL" /\ LeftLeft
                    \/ c = "RR" /\ RightRight
                    \/ c = "LR" /\ LeftRight
                    \/ c = "RL" /\ RightLeft})
        m1 == IF Abs(balance) > 1 /\ cases # 1
              THEN [m0 EXCEPT !.unrepaired = @ + 1]
              ELSE m0
    IN  IF balance > 1 /\ l = NULL THEN Fault(m0)
        ELSE IF balance < -1 /\ r = NULL THEN Fault(m0)
        ELSE IF LeftLeft THEN
            rotate_right(m1, node)
        ELSE IF RightRight THEN
            rotate_left(m1, node)
        ELSE IF LeftRight THEN
            LET a == rotate_left(m1, l) IN
            IF a.fault THEN a
            ELSE rotate_right([a EXCEPT !.heap[node].left = a.ret], node)
        ELSE IF RightLeft THEN
            LET a == rotate_right(m1, r) IN
            IF a.fault THEN a
            ELSE rotate_left([a EXCEPT !.heap[node].right = a.ret], node)
        ELSE [m1 EXCEPT !.ret = node]

RECURSIVE insert(_, _, _)

\* Mutant of insert: a key equal to the node's is sent to the right subtree
\* instead of being dropped.
insert_duplicateRight(m, node, data) ==
    IF node = NULL THEN new_Node(m, data)
    ELSE IF data < m.heap[node].data THEN
        LET c == insert(m, m.heap[node].left, data) IN
        IF c.fault THEN c
        ELSE insert_rebalance([c EXCEPT !.heap[node].left = c.ret], node, data)
    ELSE
        LET c == insert(m, m.heap[node].right, data) IN
        IF c.fault THEN c
        ELSE insert_rebalance([c EXCEPT !.heap[node].right = c.ret], node, data)

\* Mutant of insert: a key equal to the node's is sent to the left subtree
\* instead of being dropped.
insert_duplicateLeft(m, node, data) ==
    IF node = NULL THEN new_Node(m, data)
    ELSE IF data <= m.heap[node].data THEN
        LET c == insert(m, m.heap[node].left, data) IN
        IF c.fault THEN c
        ELSE insert_rebalance([c EXCEPT !.heap[node].left = c.ret], node, data)
    ELSE
        LET c == insert(m, m.heap[node].right, data) IN
        IF c.fault THEN c
        ELSE insert_rebalance([c EXCEPT !.heap[node].right = c.ret], node, data)

insert(m, node, data) ==
    IF node = NULL THEN new_Node(m, data)
    ELSE IF data < m.heap[node].data THEN
        LET c == insert(m, m.heap[node].left, data) IN
        IF c.fault THEN c
        ELSE insert_rebalance([c EXCEPT !.heap[node].left = c.ret], node, data)
    ELSE IF data > m.heap[node].data THEN
        LET c == insert(m, m.heap[node].right, data) IN
        IF c.fault THEN c
        ELSE insert_rebalance([c EXCEPT !.heap[node].right = c.ret], node, data)
    ELSE [m EXCEPT !.ret = node]

-----------------------------------------------------------------------------
(* remove(Node*, int) *)

\* Mutant of remove_rebalance: a node is rotated as soon as one side is taller.
remove_rebalance_eager(m, node) ==
    LET m1 == update_height(m, node)
        balance == balance_factor(m1, node)
        l == m1.heap[node].left
        r == m1.heap[node].right
    IN  IF balance > 0 /\ balance_factor(m1, l) >= 0 THEN
            rotate_right(m1, node)
        ELSE IF balance > 0 /\ balance_factor(m1, l) < 0 THEN
            LET a == rotate_left(m1, l) IN
            IF a.fault THEN a
            ELSE rotate_right([a EXCEPT !.heap[node].left = a.ret], node)
        ELSE IF balance < 0 /\ balance_factor(m1, r) <= 0 THEN
            rotate_left(m1, node)
        ELSE IF balance < 0 /\ balance_factor(m1, r) > 0 THEN
            LET a == rotate_right(m1, r) IN
            IF a.fault THEN a
            ELSE rotate_left([a EXCEPT !.heap[node].right = a.ret], node)
        ELSE [m1 EXCEPT !.ret = node]

\* Lines 206-239: as in insert, but the case is chosen by the balance factor
\* of the taller child.
remove_rebalance(m, node) ==
    LET m1 == observe_balance(update_height(m, node), node)
        balance == balance_factor(m1, node)
        l == m1.heap[node].left
        r == m1.heap[node].right
    IN  IF balance > 1 /\ balance_factor(m1, l) >= 0 THEN
            rotate_right(m1, node)
        ELSE IF balance > 1 /\ balance_factor(m1, l) < 0 THEN
            LET a == rotate_left(m1, l) IN
            IF a.fault THEN a
            ELSE rotate_right([a EXCEPT !.heap[node].left = a.ret], node)
        ELSE IF balance < -1 /\ balance_factor(m1, r) <= 0 THEN
            rotate_left(m1, node)
        ELSE IF balance < -1 /\ balance_factor(m1, r) > 0 THEN
            LET a == rotate_right(m1, r) IN
            IF a.fault THEN a
            ELSE rotate_left([a EXCEPT !.heap[node].right = a.ret], node)
        ELSE [m1 EXCEPT !.ret = node]

\* Mutant of leftmost: the loop is skipped, the right child is the successor.
leftmost_noLoop(m, temp) == temp

\* Lines 189-193: the loop that walks temp down the left links.
RECURSIVE leftmost(_, _)
leftmost(m, temp) ==
    IF m.heap[temp].left # NULL THEN leftmost(m, m.heap[temp].left) ELSE temp

\* Mutant of remove_leaf_or_single: the no-child case is left out, the node
\* found stays where it is.
remove_leaf_or_single_keepLeaf(m, node) ==
    LET temp == IF m.heap[node].left # NULL THEN m.heap[node].left
                ELSE m.heap[node].right
    IN  IF temp = NULL THEN [m EXCEPT !.ret = node]
        ELSE
            LET d == delete([m EXCEPT !.heap[node] = m.heap[temp]], temp) IN
            IF d.fault THEN d ELSE remove_rebalance(d, node)

\* Mutant of remove_leaf_or_single: the child whose contents were copied into
\* the node is not deleted.
remove_leaf_or_single_noRelease(m, node) ==
    LET temp == IF m.heap[node].left # NULL THEN m.heap[node].left
                ELSE m.heap[node].right
    IN  IF temp = NULL THEN [delete(m, node) EXCEPT !.ret = NULL]
        ELSE remove_rebalance([m EXCEPT !.heap[node] = m.heap[temp]], node)

\* Lines 174-185: the node found has at most one child.
remove_leaf_or_single(m, node) ==
    LET temp == IF m.heap[node].left # NULL THEN m.heap[node].left
                ELSE m.heap[node].right
    IN  IF temp = NULL THEN
            \* temp = node; node = nullptr; delete temp; return at line 204.
            [delete(m, node) EXCEPT !.ret = NULL]
        ELSE
            \* *node = *temp; delete temp; then lines 206-239.
            LET d == delete([m EXCEPT !.heap[node] = m.heap[temp]], temp) IN
            IF d.fault THEN d ELSE remove_rebalance(d, node)

RECURSIVE remove(_, _, _)
RECURSIVE remove_two_children(_, _)

\* Mutant of remove: the successor's key is not copied into the two-child node
\* before the successor is removed.
remove_noKeyCopy(m, node, data) ==
    IF node = NULL THEN [m EXCEPT !.ret = NULL]
    ELSE IF data < m.heap[node].data THEN
        LET c == remove(m, m.heap[node].left, data) IN
        IF c.fault THEN c
        ELSE remove_rebalance([c EXCEPT !.heap[node].left = c.ret], node)
    ELSE IF data > m.heap[node].data THEN
        LET c == remove(m, m.heap[node].right, data) IN
        IF c.fault THEN c
        ELSE remove_rebalance([c EXCEPT !.heap[node].right = c.ret], node)
    ELSE IF m.heap[node].left = NULL \/ m.heap[node].right = NULL THEN
        remove_leaf_or_single(m, node)
    ELSE
        LET temp == leftmost(m, m.heap[node].right)
            c == remove(m, m.heap[node].right, m.heap[temp].data)
        IN  IF c.fault THEN c
            ELSE remove_rebalance([c EXCEPT !.heap[node].right = c.ret], node)

remove(m, node, data) ==
    IF node = NULL THEN [m EXCEPT !.ret = NULL]
    ELSE IF data < m.heap[node].data THEN
        LET c == remove(m, m.heap[node].left, data) IN
        IF c.fault THEN c
        ELSE remove_rebalance([c EXCEPT !.heap[node].left = c.ret], node)
    ELSE IF data > m.heap[node].data THEN
        LET c == remove(m, m.heap[node].right, data) IN
        IF c.fault THEN c
        ELSE remove_rebalance([c EXCEPT !.heap[node].right = c.ret], node)
    ELSE IF m.heap[node].left = NULL \/ m.heap[node].right = NULL THEN
        remove_leaf_or_single(m, node)
    ELSE
        LET c == remove_two_children(m, node) IN
        IF c.fault THEN c ELSE remove_rebalance(c, node)

\* Mutant of remove_two_children: the successor's key is removed from the
\* node's left subtree instead of its right one.
remove_two_children_wrongSide(m, node) ==
    LET temp == leftmost(m, m.heap[node].right)
        m1 == [m EXCEPT !.heap[node].data = m.heap[temp].data,
                        !.copies = @ + 1]
        c == remove(m1, m1.heap[node].left, m1.heap[temp].data)
    IN  IF c.fault THEN c
        ELSE [c EXCEPT !.heap[node].left = c.ret, !.ret = node]

\* Lines 186-200: the node found has two children. The successor's key is
\* copied into node and then removed from node's right subtree.
remove_two_children(m, node) ==
    LET temp == leftmost(m, m.heap[node].right)
        m1 == [m EXCEPT !.heap[node].data = m.heap[temp].data,
                        !.copies = @ + 1]
        c == remove(m1, m1.heap[node].right, m1.heap[temp].data)
    IN  IF c.fault THEN c
        ELSE [c EXCEPT !.heap[node].right = c.ret, !.ret = node]

-----------------------------------------------------------------------------
(* search(Node*, int) and the in-order traversal *)

RECURSIVE search(_, _, _)

\* Mutant of search: the comparison is the wrong way round.
search_flipped(h, node, data) ==
    IF node = NULL \/ h[node].data = data THEN node
    ELSE IF data > h[node].data THEN search(h, h[node].left, data)
    ELSE search(h, h[node].right, data)

search(h, node, data) ==
    IF node = NULL \/ h[node].data = data THEN node
    ELSE IF data < h[node].data THEN search(h, h[node].left, data)
    ELSE search(h, h[node].right, data)

\* The keys print_in_order writes, in the order it writes them.
RECURSIVE print_in_order(_, _)
print_in_order(h, node) ==
    IF node = NULL THEN << >>
    ELSE print_in_order(h, h[node].left) \o <<h[node].data>>
         \o print_in_order(h, h[node].right)

-----------------------------------------------------------------------------
(* BinarySearchTree (src/BinarySearchTree.cpp): the plain tree, whose nodes  *)
(* have no height field.                                                   *)

\* Node(int data) of BinarySearchTree.cpp.
bst_Node(data) == [data |-> data, left |-> NULL, right |-> NULL]

\* new Node(data): the lowest free address.
bst_new_Node(m, data) ==
    LET free == Addr \ DOMAIN m.heap IN
    IF free = {} THEN Fault(m)
    ELSE LET a == MinOf(free) IN
         [m EXCEPT !.heap = [x \in DOMAIN m.heap \cup {a} |->
                                IF x = a THEN bst_Node(data) ELSE m.heap[x]],
                   !.ret = a]

RECURSIVE bst_insert(_, _, _)
\* Mutant of bst_insert: the two comparisons are swapped, so a smaller key
\* goes to the right and a larger one to the left.
bst_insert_mirrored(m, node, data) ==
    IF node = NULL THEN bst_new_Node(m, data)
    ELSE IF data > m.heap[node].data THEN
        LET c == bst_insert(m, m.heap[node].left, data) IN
        IF c.fault THEN c
        ELSE [c EXCEPT !.heap[node].left = c.ret, !.ret = node]
    ELSE IF data < m.heap[node].data THEN
        LET c == bst_insert(m, m.heap[node].right, data) IN
        IF c.fault THEN c
        ELSE [c EXCEPT !.heap[node].right = c.ret, !.ret = node]
    ELSE [m EXCEPT !.ret = node]

bst_insert(m, node, data) ==
    IF node = NULL THEN bst_new_Node(m, data)
    ELSE IF data < m.heap[node].data THEN
        LET c == bst_insert(m, m.heap[node].left, data) IN
        IF c.fault THEN c
        ELSE [c EXCEPT !.heap[node].left = c.ret, !.ret = node]
    ELSE IF data > m.heap[node].data THEN
        LET c == bst_insert(m, m.heap[node].right, data) IN
        IF c.fault THEN c
        ELSE [c EXCEPT !.heap[node].right = c.ret, !.ret = node]
    ELSE [m EXCEPT !.ret = node]

\* Mutant of bst_min_value_node: the loop body never runs.
bst_min_value_node_noLoop(m, current) == current

\* min_value_node: the loop runs while current and current->left are not null.
RECURSIVE bst_min_value_node(_, _)
bst_min_value_node(m, current) ==
    IF current # NULL /\ m.heap[current].left # NULL
    THEN bst_min_value_node(m, m.heap[current].left)
    ELSE current

RECURSIVE bst_remove(_, _, _)
RECURSIVE bst_remove_two_children(_, _)

bst_remove(m, node, data) ==
    IF node = NULL THEN [m EXCEPT !.ret = NULL]
    ELSE IF data < m.heap[node].data THEN
        LET c == bst_remove(m, m.heap[node].left, data) IN
        IF c.fault THEN c
        ELSE [c EXCEPT !.heap[node].left = c.ret, !.ret = node]
    ELSE IF data > m.heap[node].data THEN
        LET c == bst_remove(m, m.heap[node].right, data) IN
        IF c.fault THEN c
        ELSE [c EXCEPT !.heap[node].right = c.ret, !.ret = node]
    ELSE IF m.heap[node].left = NULL THEN
        \* temp = node->right; delete node; return temp.
        LET temp == m.heap[node].right IN [delete(m, node) EXCEPT !.ret = temp]
    ELSE IF m.heap[node].right = NULL THEN
        \* temp = node->left; delete node; return temp.
        LET temp == m.heap[node].left IN [delete(m, node) EXCEPT !.ret = temp]
    ELSE bst_remove_two_children(m, node)

\* Mutant of bst_remove_two_children: the successor's key is copied into the
\* node and the successor is left where it is.
bst_remove_two_children_keepSuccessor(m, node) ==
    LET temp == bst_min_value_node(m, m.heap[node].right) IN
    IF temp = NULL THEN Fault(m)
    ELSE [m EXCEPT !.heap[node].data = m.heap[temp].data,
                   !.copies = @ + 1, !.ret = node]

\* Lines 82-93: the node found has two children.
bst_remove_two_children(m, node) ==
    LET temp == bst_min_value_node(m, m.heap[node].right) IN
    IF temp = NULL THEN Fault(m)
    ELSE LET m1 == [m EXCEPT !.heap[node].data = m.heap[temp].data,
                             !.copies = @ + 1]
             c == bst_remove(m1, m1.heap[node].right, m1.heap[temp].data)
         IN  IF c.fault THEN c
             ELSE [c EXCEPT !.heap[node].right = c.ret, !.ret = node]

RECURSIVE bst_search(_, _, _)
bst_search(h, node, data) ==
    IF node = NULL \/ h[node].data = data THEN node
    ELSE IF data < h[node].data THEN bst_search(h, h[node].left, data)
    ELSE bst_search(h, h[node].right, data)

RECURSIVE bst_print_in_order(_, _)
bst_print_in_order(h, node) ==
    IF node # NULL
    THEN bst_print_in_order(h, h[node].left) \o <<h[node].data>>
         \o bst_print_in_order(h, h[node].right)
    ELSE << >>

RECURSIVE bst_print_pre_order(_, _)
bst_print_pre_order(h, node) ==
    IF node # NULL
    THEN <<h[node].data>> \o bst_print_pre_order(h, h[node].left)
         \o bst_print_pre_order(h, h[node].right)
    ELSE << >>

RECURSIVE bst_print_post_order(_, _)
bst_print_post_order(h, node) ==
    IF node # NULL
    THEN bst_print_post_order(h, h[node].left)
         \o bst_print_post_order(h, h[node].right) \o <<h[node].data>>
    ELSE << >>

\* The calls main() of BinarySearchTree.cpp makes that change the tree, in
\* order (lines 228-234 and 266-268).
BstMainScript ==
    << Ins(50), Ins(30), Ins(20), Ins(40), Ins(70), Ins(60), Ins(80),
       Rem(20), Rem(30), Rem(50) >>

-----------------------------------------------------------------------------
(* The public interface *)

\* The state every constructor and every caller starts from.
InitCommon ==
    /\ alive = TRUE
    /\ fault = FALSE
    /\ bfault = FALSE
    /\ op = "new"
    /\ result = NULL
    /\ present = FALSE
    /\ rotations = 0
    /\ copies = 0
    /\ bcopies = 0
    /\ freed = << >>
    /\ bfreed = << >>
    /\ unrepaired = 0
    /\ overshoot = 0
    /\ peak = Cardinality(S)

\* SelfBalancingBinaryTree() and SelfBalancingBinaryTree(int data), called by
\* anyone (pc = 0), and the tree main() declares at line 354 (pc = 1).
AvlNew ==
    /\ \/ /\ root = NULL
          /\ heap = << >>
          /\ arg = NULL
          /\ S = {}
          /\ pc \in {0, 1}
       \/ \E data \in Keys :
            LET c == new_Node(NewMachine(<< >>), data) IN
            /\ root = c.ret
            /\ heap = c.heap
            /\ arg = data
            /\ S = {data}
            /\ pc = 0
    /\ broot = NULL
    /\ bheap = << >>
    /\ tree = "avl"

\* BinarySearchTree() and BinarySearchTree(int data), called by anyone, and
\* the tree main() of BinarySearchTree.cpp declares at line 225.
PlainNew ==
    /\ \/ /\ broot = NULL
          /\ bheap = << >>
          /\ arg = NULL
          /\ S = {}
          /\ pc \in {0, 1}
       \/ \E data \in Keys :
            LET c == bst_new_Node(NewMachine(<< >>), data) IN
            /\ broot = c.ret
            /\ bheap = c.heap
            /\ arg = data
            /\ S = {data}
            /\ pc = 0
    /\ root = NULL
    /\ heap = << >>
    /\ tree = "plain"

Init == AvlNew /\ InitCommon

InitPlain == PlainNew /\ InitCommon

InitEither == (AvlNew \/ PlainNew) /\ InitCommon

\* What a call that ran the machine to c leaves behind. A fault ends the run.
Finish(c) ==
    /\ heap' = c.heap
    /\ root' = IF c.fault THEN root ELSE c.ret
    /\ fault' = c.fault
    /\ rotations' = c.rot
    /\ copies' = c.copies
    /\ freed' = c.freed
    /\ unrepaired' = c.unrepaired
    /\ overshoot' = c.overshoot

\* The same for a call on the plain tree.
BstFinish(c) ==
    /\ bheap' = c.heap
    /\ broot' = IF c.fault THEN broot ELSE c.ret
    /\ bfault' = c.fault
    /\ bcopies' = c.copies
    /\ bfreed' = c.freed

\* The record of the call just made, and the reference set after it.
Called(s, was) ==
    /\ op' = s.call
    /\ arg' = s.key
    /\ present' = was
    /\ S' = IF s.call = "insert" THEN S \cup {s.key} ELSE S \ {s.key}
    /\ peak' = Max(peak, Cardinality(S'))

\* void insert(int data), whoever calls it.
DoInsert(data) ==
    /\ alive /\ ~fault
    /\ Finish(insert(Machine, root, data))
    /\ Called(Ins(data), data \in StoredKeys(heap, root))
    /\ UNCHANGED <<alive, result, tree>>

\* void remove(int data), whoever calls it.
DoRemove(data) ==
    /\ alive /\ ~fault
    /\ Finish(remove(Machine, root, data))
    /\ Called(Rem(data), data \in StoredKeys(heap, root))
    /\ UNCHANGED <<alive, result, tree>>

DoCall(s) == IF s.call = "insert" THEN DoInsert(s.key) ELSE DoRemove(s.key)

\* BinarySearchTree::insert(int data) and remove(int data), whoever calls.
BstCall(s) ==
    IF s.call = "insert" THEN bst_insert(NewMachine(bheap), broot, s.key)
    ELSE bst_remove(NewMachine(bheap), broot, s.key)

BstDoCall(s) ==
    /\ alive /\ ~bfault
    /\ BstFinish(BstCall(s))
    /\ Called(s, s.key \in StoredKeys(bheap, broot))
    /\ UNCHANGED <<alive, result, tree>>

Insert(data) ==
    /\ tree = "avl" /\ pc = 0
    /\ DoInsert(data)
    /\ UNCHANGED <<pc, bvars>>

Remove(data) ==
    /\ tree = "avl" /\ pc = 0
    /\ DoRemove(data)
    /\ UNCHANGED <<pc, bvars>>

\* Node* search(int data)
Search(data) ==
    /\ tree = "avl" /\ pc = 0
    /\ alive /\ ~fault
    /\ result' = search(heap, root, data)
    /\ op' = "search"
    /\ arg' = data
    /\ present' = (data \in StoredKeys(heap, root))
    /\ rotations' = 0
    /\ copies' = 0
    /\ freed' = << >>
    /\ unrepaired' = 0
    /\ overshoot' = 0
    /\ UNCHANGED <<root, heap, alive, fault, S, peak, pc, tree, bvars>>

\* main(): its next call on the tree.
MainStep ==
    /\ tree = "avl" /\ pc \in 1..Len(MainScript)
    /\ DoCall(MainScript[pc])
    /\ pc' = pc + 1
    /\ UNCHANGED bvars

\* ~SelfBalancingBinaryTree(): delete this->root. Node has no destructor, so
\* the delete-expression releases the one object root points to; delete of a
\* null pointer does nothing. main() gets here by returning.
Destroy ==
    /\ tree = "avl"
    /\ pc = 0 \/ pc = Len(MainScript) + 1
    /\ alive /\ ~fault
    /\ alive' = FALSE
    /\ heap' = IF root = NULL THEN heap ELSE delete(Machine, root).heap
    /\ freed' = IF root = NULL THEN << >> ELSE <<root>>
    /\ op' = "destroy"
    /\ arg' = NULL
    /\ present' = FALSE
    /\ rotations' = 0
    /\ copies' = 0
    /\ unrepaired' = 0
    /\ overshoot' = 0
    /\ UNCHANGED <<root, fault, result, S, peak, pc, tree, bvars>>

Next ==
    \/ \E data \in Keys : Insert(data)
    \/ \E data \in Keys : Remove(data)
    \/ \E data \in Keys : Search(data)
    \/ MainStep
    \/ Destroy

Spec == Init /\ [][Next]_vars

-----------------------------------------------------------------------------
(* The plain tree alone *)

PlainInsert(data) ==
    /\ tree = "plain" /\ pc = 0
    /\ BstDoCall(Ins(data))
    /\ UNCHANGED <<pc, avars>>

PlainRemove(data) ==
    /\ tree = "plain" /\ pc = 0
    /\ BstDoCall(Rem(data))
    /\ UNCHANGED <<pc, avars>>

\* main() of BinarySearchTree.cpp: its next call that changes the tree.
PlainMainStep ==
    /\ tree = "plain" /\ pc \in 1..Len(BstMainScript)
    /\ BstDoCall(BstMainScript[pc])
    /\ pc' = pc + 1
    /\ UNCHANGED avars

NextPlain ==
    \/ \E data \in Keys : PlainInsert(data)
    \/ \E data \in Keys : PlainRemove(data)
    \/ PlainMainStep

SpecPlain == InitPlain /\ [][NextPlain]_vars

-----------------------------------------------------------------------------
(* Either tree: the caller has one of the two, and inserts and removes. *)

NextEither ==
    \/ \E data \in Keys : Insert(data)
    \/ \E data \in Keys : Remove(data)
    \/ \E data \in Keys : PlainInsert(data)
    \/ \E data \in Keys : PlainRemove(data)
    \/ MainStep
    \/ PlainMainStep

SpecEither == InitEither /\ [][NextEither]_vars

-----------------------------------------------------------------------------
(* The two trees side by side: every call is made on both. Only the trees  *)
(* and the reference set are followed; the record of the last call is not  *)
(* kept.                                                                   *)

PairKeys == 1..MaxPairKey

InitBoth ==
    /\ root = NULL /\ heap = << >>
    /\ broot = NULL /\ bheap = << >>
    /\ arg = NULL
    /\ S = {}
    /\ pc \in {0, 1}
    /\ tree = "both"
    /\ InitCommon

BothCall(s) ==
    /\ alive /\ ~fault /\ ~bfault
    /\ LET c == IF s.call = "insert" THEN insert(Machine, root, s.key)
                ELSE remove(Machine, root, s.key)
           b == BstCall(s)
       IN  /\ heap' = c.heap
           /\ root' = IF c.fault THEN root ELSE c.ret
           /\ fault' = c.fault
           /\ bheap' = b.heap
           /\ broot' = IF b.fault THEN broot ELSE b.ret
           /\ bfault' = b.fault
    /\ S' = IF s.call = "insert" THEN S \cup {s.key} ELSE S \ {s.key}
    /\ UNCHANGED <<alive, op, arg, result, present, rotations, copies, freed,
                   unrepaired, overshoot, peak, tree, bcopies, bfreed>>

BothInsert(data) ==
    /\ pc = 0
    /\ BothCall(Ins(data))
    /\ UNCHANGED pc

BothRemove(data) ==
    /\ pc = 0
    /\ BothCall(Rem(data))
    /\ UNCHANGED pc

\* The calls of main() of BinarySearchTree.cpp, made on both trees.
BothMainStep ==
    /\ pc \in 1..Len(BstMainScript)
    /\ BothCall(BstMainScript[pc])
    /\ pc' = pc + 1

NextBoth ==
    \/ \E data \in PairKeys : BothInsert(data)
    \/ \E data \in PairKeys : BothRemove(data)
    \/ BothMainStep

SpecBoth == InitBoth /\ [][NextBoth]_vars

-----------------------------------------------------------------------------
(* Properties *)

\* The tree object exists and no call has gone wrong.
Live == alive /\ ~fault

StrictlyAscending(seq) == \A i \in 1..(Len(seq) - 1) : seq[i] < seq[i + 1]

\* The fewest nodes a tree of height h can have when every node is balanced.
RECURSIVE MinNodes(_)
MinNodes(h) == IF h <= 0 THEN 0 ELSE IF h = 1 THEN 1
               ELSE 1 + MinNodes(h - 1) + MinNodes(h - 2)

\* C1: after every completed insert or remove, from an empty or a one-key tree,
\* every node's subtrees differ in actual height by at most one.
BalanceInvariant ==
    Live => \A n \in Nodes(heap, root) :
        Abs(TrueHeight(heap, heap[n].left) - TrueHeight(heap, heap[n].right)) <= 1

\* C1 witness: a remove has just repaired an imbalance with a double rotation.
BalanceWitness ==
    /\ Live /\ op = "remove" /\ rotations = 2
    /\ TrueHeight(heap, root) = 2

\* C2: after every completed insert or remove the in-order traversal is strictly
\* ascending, and at every node the keys to the left are smaller and the keys to
\* the right larger.
OrderingInvariant ==
    Live =>
        /\ StrictlyAscending(print_in_order(heap, root))
        /\ \A n \in Nodes(heap, root) :
            /\ \A k \in StoredKeys(heap, heap[n].left) : k < heap[n].data
            /\ \A k \in StoredKeys(heap, heap[n].right) : k > heap[n].data

\* C2 witness: a remove has copied a successor key into a two-child node and
\* rotated on the way back, leaving three keys.
OrderingWitness ==
    /\ Live /\ op = "remove" /\ copies = 1 /\ rotations >= 1
    /\ Len(print_in_order(heap, root)) = 3

\* C3: the set of keys stored in the tree is the set obtained by applying the
\* same calls to a mathematical set.
KeySetRefinement ==
    Live => StoredKeys(heap, root) = S

\* C3 witness: a removal that replaced a two-child node's key has happened and
\* the tree still stores keys.
KeySetWitness ==
    /\ Live /\ op = "remove" /\ present /\ copies = 1
    /\ Cardinality(S) >= 2
    /\ arg \notin StoredKeys(heap, root)

\* C4: after every completed insert or remove, every node's stored height is one
\* more than the larger stored height of its children, and is its actual height.
HeightFieldInvariant ==
    Live => \A n \in Nodes(heap, root) :
        /\ heap[n].height =
            1 + Max(IF heap[n].left = NULL THEN 0 ELSE heap[heap[n].left].height,
                    IF heap[n].right = NULL THEN 0 ELSE heap[heap[n].right].height)
        /\ heap[n].height = TrueHeight(heap, n)

\* C4 witness: a remove of a stored key that copied no successor key (the node
\* found had at most one child) rotated once and left a tree of height >= 2.
HeightFieldWitness ==
    /\ Live /\ op = "remove" /\ present /\ copies = 0 /\ rotations = 1
    /\ heap[root].height >= 2

\* C5: search returns a node holding the key when the key is stored, null when
\* it is not, and leaves the tree as it was.
SearchCorrect ==
    [][op' = "search" =>
        /\ root' = root /\ heap' = heap
        /\ IF arg' \in StoredKeys(heap, root)
           THEN result' \in Nodes(heap, root) /\ heap[result'].data = arg'
           ELSE result' = NULL]_vars

\* C5 witness: a search found a key that is not at the root.
SearchWitness ==
    /\ Live /\ op = "search" /\ result # NULL /\ result # root
    /\ heap[result].data = arg

\* C6: insert of a key already stored leaves links, keys, in-order sequence and
\* stored heights as they were, and rotates nothing.
InsertPresentUnchanged ==
    [][(op' = "insert" /\ present') =>
        /\ root' = root /\ heap' = heap
        /\ print_in_order(heap', root') = print_in_order(heap, root)
        /\ rotations' = 0]_vars

\* C6 witness: a duplicate insert went below the root of a tree of height 3.
InsertPresentWitness ==
    /\ Live /\ op = "insert" /\ present
    /\ heap[root].data # arg /\ TrueHeight(heap, root) = 3

\* C7: remove of a key not stored leaves links, keys, in-order sequence and
\* stored heights as they were, and rotates nothing.
RemoveAbsentUnchanged ==
    [][(op' = "remove" /\ ~present') =>
        /\ root' = root /\ heap' = heap
        /\ print_in_order(heap', root') = print_in_order(heap, root)
        /\ rotations' = 0]_vars

\* C7 witness: a remove of an absent key went below the root of a tree that
\* leans to one side and came back.
RemoveAbsentWitness ==
    /\ Live /\ op = "remove" /\ ~present
    /\ root # NULL /\ heap[root].left # NULL /\ heap[root].right = NULL
    /\ arg < heap[heap[root].left].data

\* C8: once every key inserted has been removed again, in whatever order the
\* inserts and the removes came, the root is absent.
RoundTripEmpty ==
    (Live /\ S = {}) => root = NULL

\* C8 witness: the last of MaxKey inserted keys has just been removed.
RoundTripWitness ==
    /\ Live /\ op = "remove" /\ present /\ S = {} /\ peak = MaxKey
    /\ root = NULL

\* C9: after the destructor no node allocated by the tree remains allocated.
DestructorReleasesAll ==
    ~alive => DOMAIN heap = {}

\* C10: a tree of n >= 1 keys and height h has n >= MinNodes(h), and
\* h <= 1.45 * log2(n + 2): some p/q <= log2(n + 2) has 100 * h * q <= 145 * p.
HeightBound ==
    (Live /\ root # NULL) =>
        LET n == Cardinality(Nodes(heap, root))
            h == TrueHeight(heap, root)
        IN  /\ n >= MinNodes(h)
            /\ \E q \in 1..4 : \E p \in 0..16 :
                (n + 2)^q >= 2^p /\ 100 * h * q <= 145 * p

\* C10 witness: a tree of height 3 on the fewest keys that allow it.
HeightBoundWitness ==
    /\ Live /\ root # NULL
    /\ TrueHeight(heap, root) = 3
    /\ Cardinality(Nodes(heap, root)) = MinNodes(3)

\* Every node under node has subtrees whose heights differ by at most one.
Balanced(h, node) ==
    \A n \in Nodes(h, node) :
        Abs(TrueHeight(h, h[n].left) - TrueHeight(h, h[n].right)) <= 1

\* main() of SelfBalancingBinaryTree.cpp has made its first eight calls.
AfterEightInserts == tree = "avl" /\ pc = 9

-----------------------------------------------------------------------------
(* The plain tree *)

\* The caller has a BinarySearchTree and no call on it has gone wrong.
PlainLive == tree = "plain" /\ alive /\ ~bfault

\* The elements of a sequence.
Range(seq) == {seq[i] : i \in 1..Len(seq)}

\* main() of BinarySearchTree.cpp has made its seven inserts; it has made all
\* its calls.
AfterSevenInserts == tree = "plain" /\ pc = 8
AfterThreeRemoves == tree = "plain" /\ pc = Len(BstMainScript) + 1

\* C12: after any sequence of insert/remove calls on an initially empty (or
\* one-key) plain tree the in-order traversal is strictly ascending and holds
\* exactly the keys inserted and not removed since; after main()'s seven
\* inserts and its removes of 20, 30 and 50 it is 40 60 70 80.
PlainOrderingInvariant ==
    tree = "plain" =>
        /\ PlainLive
        /\ StrictlyAscending(bst_print_in_order(bheap, broot))
        /\ Range(bst_print_in_order(bheap, broot)) = S
        /\ AfterThreeRemoves =>
                bst_print_in_order(bheap, broot) = <<40, 60, 70, 80>>

\* C12 witness: main() has just removed 50 from the root, which had two
\* children, and four keys are left.
PlainOrderingWitness ==
    /\ AfterThreeRemoves /\ PlainLive
    /\ op = "remove" /\ arg = 50 /\ present /\ bcopies = 1
    /\ Len(bst_print_in_order(bheap, broot)) = 4

\* What insert(data) may change in a plain tree that does not hold data: one
\* node is allocated, holding data and no children; it is hung on one link that
\* was null (the root pointer of an empty tree, or one child link of one
\* node); every other node keeps its key, its children and its place.
AttachedAsLeaf(data) ==
    \E a \in DOMAIN bheap' \ DOMAIN bheap :
        /\ DOMAIN bheap' = DOMAIN bheap \cup {a}
        /\ bheap'[a] = bst_Node(data)
        /\ IF broot = NULL THEN broot' = a
           ELSE /\ broot' = broot
                /\ \E n \in DOMAIN bheap :
                     /\ \/ /\ bheap[n].left = NULL
                           /\ bheap' = [bheap EXCEPT ![n].left = a] @@ (a :> bst_Node(data))
                        \/ /\ bheap[n].right = NULL
                           /\ bheap' = [bheap EXCEPT ![n].right = a] @@ (a :> bst_Node(data))

\* The three traversals of the plain tree visit the same keys; the pre-order
\* one starts and the post-order one ends with the root's key, and the in-order
\* one is ascending.
TraversalsAgree ==
    LET in == bst_print_in_order(bheap, broot)
        pre == bst_print_pre_order(bheap, broot)
        post == bst_print_post_order(bheap, broot)
    IN  /\ Len(pre) = Len(in) /\ Len(post) = Len(in)
        /\ Range(pre) = Range(in) /\ Range(post) = Range(in)
        /\ StrictlyAscending(in)
        /\ broot # NULL => pre[1] = bheap[broot].data
                          /\ post[Len(post)] = bheap[broot].data
        /\ \A n \in Nodes(bheap, broot) :
             LET l == bheap[n].left
                 r == bheap[n].right
                 k == bheap[n].data
             IN  /\ bst_print_in_order(bheap, n)
                      = bst_print_in_order(bheap, l) \o <<k>>
                        \o bst_print_in_order(bheap, r)
                 /\ bst_print_pre_order(bheap, n)
                      = <<k>> \o bst_print_pre_order(bheap, l)
                        \o bst_print_pre_order(bheap, r)
                 /\ bst_print_post_order(bheap, n)
                      = bst_print_post_order(bheap, l)
                        \o bst_print_post_order(bheap, r) \o <<k>>

\* The traversals main() of BinarySearchTree.cpp prints after its inserts.
SevenInsertsTraversals ==
    /\ bst_print_in_order(bheap, broot) = <<20, 30, 40, 50, 60, 70, 80>>
    /\ bst_print_pre_order(bheap, broot) = <<50, 30, 20, 40, 70, 60, 80>>
    /\ bst_print_post_order(bheap, broot) = <<20, 40, 30, 60, 80, 70, 50>>

\* C13: in the plain tree insert attaches a new key as a leaf without moving
\* any existing node (and changes nothing for a key already stored); the
\* traversals are in (left, node, right), (node, left, right) and (left, right,
\* node) order; after inserting 50,30,20,40,70,60,80 into an empty tree they
\* are 20 30 40 50 60 70 80, 50 30 20 40 70 60 80 and 20 40 30 60 80 70 50.
PlainInsertAsLeaf ==
    /\ [](tree = "plain" =>
            /\ PlainLive
            /\ TraversalsAgree
            /\ AfterSevenInserts => SevenInsertsTraversals)
    /\ [][(tree = "plain" /\ op' = "insert") =>
            IF arg' \in StoredKeys(bheap, broot)
            THEN bheap' = bheap /\ broot' = broot
            ELSE AttachedAsLeaf(arg')]_vars

\* C13 witness: main() has made its seventh insert, of 80 as the right child
\* of 70, and the three traversals are the ones it prints.
PlainInsertWitness ==
    /\ AfterSevenInserts /\ PlainLive
    /\ op = "insert" /\ arg = 80 /\ ~present
    /\ SevenInsertsTraversals
    /\ TrueHeight(bheap, broot) = 3

-----------------------------------------------------------------------------
(* The two trees side by side *)

\* The keys a caller may search for: those offered, those main() uses, and
\* two that are never inserted.
ProbeKeys ==
    PairKeys \cup {BstMainScript[i].key : i \in 1..Len(BstMainScript)}
             \cup {0, 10}

\* C14: a BinarySearchTree and a SelfBalancingBinaryTree given the same calls
\* from empty agree after every call: their in-order sequences are equal, and
\* search(k) finds a node in one exactly when it does in the other.
SideBySideAgree ==
    tree = "both" =>
        /\ ~fault /\ ~bfault
        /\ print_in_order(heap, root) = bst_print_in_order(bheap, broot)
        /\ \A k \in ProbeKeys :
             (search(heap, root, k) # NULL) <=> (bst_search(bheap, broot, k) # NULL)

\* C14 witness: the two trees hold the same three keys in different shapes,
\* the plain one as a chain and the balanced one with both children at the
\* root.
SideBySideWitness ==
    /\ tree = "both" /\ ~fault /\ ~bfault
    /\ Cardinality(S) = 3
    /\ TrueHeight(bheap, broot) = 3
    /\ TrueHeight(heap, root) = 2
    /\ print_in_order(heap, root) = bst_print_in_order(bheap, broot)

-----------------------------------------------------------------------------
(* The balanced tree: what its calls do on the way *)

\* C15: over every sequence of public insert/remove calls, no call reads
\* through a null child: rotate_right is only invoked on a node with a left
\* child and rotate_left on a node with a right child, the inner rotations of
\* the Left-Right and Right-Left cases included, and the case guards of insert
\* read node->left->data (node->right->data) only when that child is present.
NoNullDereference ==
    tree = "avl" => ~fault

\* C15 witness: an insert has gone through a double rotation, the inner one
\* on a child and the outer one on the node, without a fault.
NoNullDereferenceWitness ==
    /\ tree = "avl" /\ alive /\ ~fault
    /\ op = "insert" /\ ~present /\ rotations = 2
    /\ TrueHeight(heap, root) = 2

-----------------------------------------------------------------------------
(* Either tree: ownership and the two-child removal *)

\* Every link of heap h and the root pointer r lead to an allocated node or
\* are null.
NoDanglingLink(h, r) ==
    /\ r \in DOMAIN h \cup {NULL}
    /\ \A n \in DOMAIN h :
         /\ h[n].left \in DOMAIN h \cup {NULL}
         /\ h[n].right \in DOMAIN h \cup {NULL}

\* Ownership after a completed call that released the nodes released: no
\* link dangles, the allocated nodes are the ones reachable from the root, a
\* remove of a stored key released one node and no other call released any,
\* the released nodes are out of the heap, and the keys still owned are the
\* reference set.
Owned(h, r, released) ==
    /\ NoDanglingLink(h, r)
    /\ DOMAIN h = Nodes(h, r)
    /\ Len(released) = IF op = "remove" /\ present THEN 1 ELSE 0
    /\ \A i \in 1..Len(released) : released[i] \notin DOMAIN h
    /\ StoredKeys(h, r) = S
    /\ Cardinality(DOMAIN h) = Cardinality(S)

\* C16: in both trees, after every completed insert or remove the nodes
\* allocated and not released are exactly the nodes reachable from the root;
\* a removed key releases exactly one node, once; no released node stays
\* linked; and no node is read or released after its release (either would be
\* a fault), the successor's key and the one-child contents being kept.
OwnershipExact ==
    /\ tree = "avl" => (alive /\ ~fault /\ Owned(heap, root, freed))
    /\ tree = "plain" => (alive /\ ~bfault /\ Owned(bheap, broot, bfreed))

\* C16 witness: the balanced tree has just removed a key from a node with two
\* children, releasing one node and keeping at least three.
OwnershipWitness ==
    /\ tree = "avl" /\ alive /\ ~fault
    /\ op = "remove" /\ present /\ copies = 1 /\ Len(freed) = 1
    /\ Cardinality(Nodes(heap, root)) >= 3

-----------------------------------------------------------------------------
(* The balanced tree: the checks made on the way back *)

\* C17: in insert, whenever the balance factor read at a node on the way back
\* is outside [-1, 1], exactly one of the four case guards is true: the key
\* inserted is not the key of the child on the heavy side, and no unbalanced
\* node is returned without a rotation.
OneCaseGuard ==
    tree = "avl" => (~fault /\ unrepaired = 0)

\* C17 witness: an insert of a third key has read a balance factor outside
\* [-1, 1] at the root, and one single rotation repaired it.
OneCaseGuardWitness ==
    /\ tree = "avl" /\ alive /\ ~fault
    /\ op = "insert" /\ ~present /\ rotations = 1 /\ unrepaired = 0
    /\ Cardinality(S) = 3 /\ TrueHeight(heap, root) = 2

\* C18: during any public insert or remove on a balanced tree, each balance
\* factor read on the way back (after update_height, before any rotation at
\* that node) lies in [-2, 2], and at that moment every node below the node
\* being checked has subtrees whose heights differ by at most one.
UnwindWithinTwo ==
    tree = "avl" => (~fault /\ overshoot = 0)

\* C18 witness: a remove has read a balance factor of 2 or -2 on the way back
\* and repaired it with one rotation, leaving three keys.
UnwindWitness ==
    /\ tree = "avl" /\ alive /\ ~fault
    /\ op = "remove" /\ present /\ rotations = 1 /\ overshoot = 0
    /\ Cardinality(S) = 3

-----------------------------------------------------------------------------
(* Either tree: removing the key of a node with two children *)

\* The nodes of the tree under r that have two children.
TwoChildNodes(h, r) ==
    {n \in Nodes(h, r) : h[n].left # NULL /\ h[n].right # NULL}

\* The node holding the smallest key of the subtree under node (not null).
RECURSIVE SuccessorNode(_, _)
SuccessorNode(h, node) ==
    IF h[node].left = NULL THEN node ELSE SuccessorNode(h, h[node].left)

\* What the two-child step, taking heap h to machine c at node n, does in
\* either tree: it ends without fault, n holds the smallest key its right
\* subtree had, one node is released, and n's left subtree is as it was.
TwoChildStep(h, n, c) ==
    /\ ~c.fault
    /\ c.heap[n].data = MinOf(StoredKeys(h, h[n].right))
    /\ c.heap[n].data = h[SuccessorNode(h, h[n].right)].data
    /\ Len(c.freed) = 1
    /\ c.heap[n].left = h[n].left
    /\ \A x \in Nodes(h, h[n].left) : x \in DOMAIN c.heap /\ c.heap[x] = h[x]
    /\ StoredKeys(c.heap, c.heap[n].right)
         = StoredKeys(h, h[n].right) \ {c.heap[n].data}

\* The node released is the one that held the successor key.
ReleasedSuccessor(h, n, c) ==
    c.freed[1] = SuccessorNode(h, h[n].right)

\* The balanced tree, when the successor has a right child: the successor's
\* node is kept and takes over its right child's contents, and the right
\* child's node is the one released.
ReleasedSuccessorChild(h, n, c) ==
    LET p == SuccessorNode(h, h[n].right) IN
    /\ h[p].right # NULL
    /\ c.freed[1] = h[p].right
    /\ p \in DOMAIN c.heap
    /\ c.heap[p].data = h[h[p].right].data

\* The plain tree: the node keeps its position and every node outside its
\* right subtree is unchanged, but for the key and right link of the node.
PlainOutsideUnchanged(h, n, c) ==
    /\ c.ret = n
    /\ \A x \in DOMAIN h \ (Nodes(h, h[n].right) \cup {n}) :
         x \in DOMAIN c.heap /\ c.heap[x] = h[x]

\* C19: in both trees, when remove(k) reaches the node holding k and that node
\* has two children, the key written into it is the smallest key of its right
\* subtree and its left subtree is not modified by this step; the node
\* released is the one that held that successor key, or, in the balanced tree
\* when the successor has a right child, that right child, whose contents the
\* successor's node takes over; in the plain tree the node keeps its position
\* and every node outside its right subtree is unchanged.
TwoChildRemoval ==
    /\ (tree = "avl" /\ ~fault) =>
         \A n \in TwoChildNodes(heap, root) :
            LET c == remove_two_children(Machine, n) IN
            /\ TwoChildStep(heap, n, c)
            /\ IF heap[SuccessorNode(heap, heap[n].right)].right = NULL
               THEN ReleasedSuccessor(heap, n, c)
               ELSE ReleasedSuccessorChild(heap, n, c)
    /\ (tree = "plain" /\ ~bfault) =>
         \A n \in TwoChildNodes(bheap, broot) :
            LET c == bst_remove_two_children(NewMachine(bheap), n) IN
            /\ TwoChildStep(bheap, n, c)
            /\ ReleasedSuccessor(bheap, n, c)
            /\ PlainOutsideUnchanged(bheap, n, c)

\* C19 witness: the balanced tree has a node with two children whose
\* successor has a right child, and the step on it releases that child.
TwoChildRemovalWitness ==
    /\ tree = "avl" /\ alive /\ ~fault
    /\ \E n \in TwoChildNodes(heap, root) :
         LET c == remove_two_children(Machine, n) IN
         /\ TwoChildStep(heap, n, c)
         /\ ReleasedSuccessorChild(heap, n, c)

\* C19 as stated: in both trees the node released is the one that held the
\* successor key.
TwoChildReleasesSuccessor ==
    /\ (tree = "avl" /\ ~fault) =>
         \A n \in TwoChildNodes(heap, root) :
            LET c == remove_two_children(Machine, n) IN
            /\ TwoChildStep(heap, n, c)
            /\ ReleasedSuccessor(heap, n, c)
    /\ (tree = "plain" /\ ~bfault) =>
         \A n \in TwoChildNodes(bheap, broot) :
            LET c == bst_remove_two_children(NewMachine(bheap), n) IN
            /\ TwoChildStep(bheap, n, c)
            /\ ReleasedSuccessor(bheap, n, c)
            /\ PlainOutsideUnchanged(bheap, n, c)

-----------------------------------------------------------------------------
(* The rotations as functions of the heap they are given *)

\* A plain tree's heap with the height field every node of the balanced tree
\* carries, set to the height the links make: the trees of any shape.
WithHeights(h) ==
    [x \in DOMAIN h |->
        [data |-> h[x].data, left |-> h[x].left, right |-> h[x].right,
         height |-> TrueHeight(h, x)]]

\* The heap a rotation is tried on: the balanced tree's own, or every shape
\* the plain tree takes.
RotationInput == IF tree = "plain" THEN WithHeights(bheap) ELSE heap

\* Every node of heap h other than a and b is as it was, in machine c.
OthersUnchanged(h, a, b, c) ==
    /\ DOMAIN c.heap = DOMAIN h
    /\ \A x \in DOMAIN h \ {a, b} : c.heap[x] = h[x]
    /\ c.heap[a].data = h[a].data
    /\ c.heap[b].data = h[b].data

\* Nodes a and b carry the heights their links make.
HeightsCorrect(c, a, b) ==
    /\ c.heap[a].height = TrueHeight(c.heap, a)
    /\ c.heap[b].height = TrueHeight(c.heap, b)

\* rotate_right(node) on heap h, node having the left child L.
RotateRightContract(h, node) ==
    LET L == h[node].left
        c == rotate_right(NewMachine(h), node)
    IN  /\ ~c.fault /\ c.ret = L /\ c.rot = 1
        /\ c.heap[L].right = node
        /\ c.heap[node].left = h[L].right
        /\ c.heap[L].left = h[L].left
        /\ c.heap[node].right = h[node].right
        /\ OthersUnchanged(h, node, L, c)
        /\ print_in_order(c.heap, L) = print_in_order(h, node)
        /\ HeightsCorrect(c, node, L)

\* rotate_left(node) on heap h, node having the right child R.
RotateLeftContract(h, node) ==
    LET R == h[node].right
        c == rotate_left(NewMachine(h), node)
    IN  /\ ~c.fault /\ c.ret = R /\ c.rot = 1
        /\ c.heap[R].left = node
        /\ c.heap[node].right = h[R].left
        /\ c.heap[R].right = h[R].right
        /\ c.heap[node].left = h[node].left
        /\ OthersUnchanged(h, node, R, c)
        /\ print_in_order(c.heap, R) = print_in_order(h, node)
        /\ HeightsCorrect(c, node, R)

\* C20: rotate_right(node), on a node with a left child L whose subtrees carry
\* correct stored heights, returns L with L.right = node and node.left = the
\* former L.right, leaves every other link and every key unchanged, preserves
\* the in-order key sequence of the subtree, and leaves node and L with
\* correct stored heights; rotate_left is the mirror image.
RotationContract ==
    (alive /\ ~fault /\ ~bfault) =>
        \A node \in DOMAIN RotationInput :
            /\ RotationInput[node].left # NULL =>
                    RotateRightContract(RotationInput, node)
            /\ RotationInput[node].right # NULL =>
                    RotateLeftContract(RotationInput, node)

\* C20 witness: a tree whose root leans left by two, with a left child that
\* has a right child; rotate_right at the root meets the contract and hands
\* that right child over to the old root.
RotationWitness ==
    /\ tree = "plain" /\ alive /\ ~bfault /\ broot # NULL
    /\ LET h == RotationInput
           L == h[broot].left
       IN  /\ L # NULL
           /\ h[L].right # NULL
           /\ TrueHeight(h, L) - TrueHeight(h, h[broot].right) = 2
           /\ RotateRightContract(h, broot)
           /\ rotate_right(NewMachine(h), broot).heap[broot].left = h[L].right

====
